---- MODULE Spec2Model ----
(***************************************************************************)
(* Isochrone state machine of Isochrone/algorithms/isobased.py (IsoBased). *)
(*                                                                         *)
(* Arrays are sequences: a per-step container is a sequence of rows        *)
(* (row 1 = numpy row 0 = newest step), each row a sequence of columns.    *)
(* Column k of the model is numpy column k-1.                              *)
(*                                                                         *)
(* The geodesic primitives (geovectorslib), the weather and performance    *)
(* models and the constraint list are external collaborators.  The         *)
(* geodesic is modelled on an integer lattice (lat, lon) with eight        *)
(* compass courses; the results of the other collaborators are inputs of   *)
(* move_boat_direct drawn from small sets.                                 *)
(***************************************************************************)
EXTENDS Integers, Sequences, FiniteSets, TLC

(***************************************************************************)
(* Bounds of the model                                                     *)
(***************************************************************************)
MaxCount == 2

MaxCols == 4

(***************************************************************************)
(* Sentinels                                                               *)
(***************************************************************************)
\* azimuth_per_step = np.array([[None]]): the departure row has no azimuth
NoneAzimuth == -999

\* value of binned_statistic for an empty bin (np.nanmax([]) fails -> nan);
\* it compares unequal to every progress value, which are all >= 0
NaN == -1

(***************************************************************************)
(* numpy helpers                                                           *)
(***************************************************************************)
\* a bug variant of np.repeat: the whole vector is repeated (np.tile)
RepeatTiled(v, k) ==
    [i \in 1..(Len(v) * k) |-> v[((i - 1) % Len(v)) + 1]]

\* np.repeat(v, k) on a vector: every element k times, consecutively
Repeat(v, k) ==
    [i \in 1..(Len(v) * k) |-> v[((i - 1) \div k) + 1]]

\* np.repeat(m, k, axis=1) on an (M,N) array
RepeatAxis1(m, k) ==
    [r \in 1..Len(m) |-> Repeat(m[r], k)]

\* np.tile(v, n)
Tile(v, n) ==
    [i \in 1..(Len(v) * n) |-> v[((i - 1) % Len(v)) + 1]]

\* np.vstack((row, m))
VStack(row, m) ==
    <<row>> \o m

\* v[idxs] for a list of column indices
Take(v, idxs) ==
    [k \in 1..Len(idxs) |-> v[idxs[k]]]

\* m[:, idxs]
TakeAxis1(m, idxs) ==
    [r \in 1..Len(m) |-> Take(m[r], idxs)]

\* a bug variant of np.flip(m, 0): the rows are rotated by one instead of
\* reversed (the same for one and for two rows)
FlipRotated(m) ==
    [r \in 1..Len(m) |-> m[(r % Len(m)) + 1]]

\* np.flip(m, 0)
Flip(m) ==
    [r \in 1..Len(m) |-> m[Len(m) + 1 - r]]

\* np.full(n, x) and np.repeat(x, n) of a scalar
Full(n, x) ==
    [i \in 1..n |-> x]

RECURSIVE SumSeq(_)
SumSeq(v) ==
    IF Len(v) = 0 THEN 0 ELSE v[1] + SumSeq(Tail(v))

RECURSIVE SortedSeq(_)
\* the list made from a set of small non-negative ints, ascending
SortedSeq(S) ==
    IF S = {} THEN <<>>
    ELSE LET m == CHOOSE x \in S : \A y \in S : x <= y
         IN <<m>> \o SortedSeq(S \ {m})

Abs(x) ==
    IF x < 0 THEN -x ELSE x

Max(a, b) ==
    IF a >= b THEN a ELSE b

Sign(x) ==
    IF x > 0 THEN 1 ELSE IF x < 0 THEN -1 ELSE 0

(***************************************************************************)
(* Geodesic primitive on the lattice: lat grows to the north (course 0),   *)
(* lon to the east (course 90); the distance is the number of lattice      *)
(* moves along the eight compass courses.                                  *)
(***************************************************************************)
\* the compass course (multiple of 45 in 0..315) nearest to azi
Course(azi) ==
    ((((azi % 360) + 22) \div 45) * 45) % 360

CourseDLat(c) ==
    IF c \in {315, 0, 45} THEN 1 ELSE IF c \in {135, 180, 225} THEN -1 ELSE 0

CourseDLon(c) ==
    IF c \in {45, 90, 135} THEN 1 ELSE IF c \in {225, 270, 315} THEN -1 ELSE 0

\* geod.inverse(lat1, lon1, lat2, lon2) for one pair of points
Inverse(lat1, lon1, lat2, lon2) ==
    LET dlat == Sign(lat2 - lat1)
        dlon == Sign(lon2 - lon1)
    IN [azi1 |-> CHOOSE c \in {0, 45, 90, 135, 180, 225, 270, 315} :
                     \/ dlat = 0 /\ dlon = 0 /\ c = 0
                     \/ (dlat # 0 \/ dlon # 0)
                        /\ CourseDLat(c) = dlat /\ CourseDLon(c) = dlon,
        s12  |-> Max(Abs(lat2 - lat1), Abs(lon2 - lon1))]

\* geod.direct(lat, lon, azi, dist) for one point
Direct(lat, lon, azi, dist) ==
    [lat2 |-> lat + dist * CourseDLat(Course(azi)),
     lon2 |-> lon + dist * CourseDLon(Course(azi)),
     azi2 |-> azi]

(***************************************************************************)
(* Route end points (RoutingAlg, the parent class)                         *)
(***************************************************************************)
start == [lat |-> 0, lon |-> 0]

finish == [lat |-> 0, lon |-> 2]

\* an intermediate waypoint that can stand for the temporary destination
waypoint == [lat |-> 0, lon |-> 1]

\* departure time of the route, in seconds
DepartureTime == 0

\* fixed origin of the current route segment
start_temp == start

(***************************************************************************)
(* State                                                                   *)
(***************************************************************************)
VARIABLES
    lats_per_step,            \* (M,N) per-step containers, newest row first
    lons_per_step,
    azimuth_per_step,
    dist_per_step,
    starttime_per_step,
    shipparams_per_step,      \* ShipParams: [rpm, power, speed, fuel], each (M,N)
    current_azimuth,          \* per-candidate vectors
    current_variant,
    full_dist_traveled,
    full_time_traveled,
    full_fuel_consumed,
    time,
    count,                    \* routing step counter
    is_last_step,
    is_pos_constraint_step,
    finish_temp,              \* temporary destination
    variant_segments,         \* settings
    variant_increments_deg,
    prune_sector_deg_half,
    prune_segments,
    gate,                     \* per candidate: what the constraint gate said
                              \* in the last step and in all steps so far
    op,                       \* the call that produced this state
    log,                      \* severity of the last message of logger WRT.Pruning
    weather,                  \* the WeatherCondFromFile object
    ret                       \* the last call of round_time or get_wind_vector

per_step_vars ==
    <<lats_per_step, lons_per_step, azimuth_per_step, dist_per_step,
      starttime_per_step, shipparams_per_step>>

per_candidate_vars ==
    <<current_azimuth, current_variant, full_dist_traveled,
      full_time_traveled, full_fuel_consumed, time>>

flag_vars ==
    <<is_last_step, is_pos_constraint_step>>

settings_vars ==
    <<finish_temp, variant_segments, variant_increments_deg,
      prune_sector_deg_half, prune_segments>>

weather_vars ==
    <<weather, ret>>

vars ==
    <<per_step_vars, per_candidate_vars, count, flag_vars, settings_vars,
      gate, op, log, weather_vars>>

\* shape of a per-step container
Rows(m) ==
    Len(m)

Cols(m) ==
    Len(m[1])

\* number of live candidate routes: lats_per_step.shape[1]
NofRoutes ==
    Cols(lats_per_step)

\* great-circle course of the route segment (RoutingAlg)
gcr_azi_temp ==
    Inverse(start_temp.lat, start_temp.lon, finish_temp.lat, finish_temp.lon).azi1

\* the record kept in op for a call
Call(name, trim, idxs, raised) ==
    [name |-> name, trim |-> trim, idxs |-> idxs, raised |-> raised]

\* the record kept in op for a move_boat_direct call: it also holds dist, the
\* step distances get_delta_variables_netCDF returned and check_bearing got,
\* and delta_time, the step duration update_time got
MoveCall(dist, delta_time) ==
    [name |-> "move_boat_direct", trim |-> FALSE, idxs |-> <<>>,
     raised |-> FALSE, dist |-> dist, delta_time |-> delta_time]

(***************************************************************************)
(* Settings the model is run with (set_variant_segments,                   *)
(* set_pruning_settings, and the temporary destination RoutingAlg keeps);  *)
(* they include configurations check_settings rejects.                     *)
(***************************************************************************)
Setting(seg, inc, half, pseg, dest) ==
    [variant_segments |-> seg, variant_increments_deg |-> inc,
     prune_sector_deg_half |-> half, prune_segments |-> pseg,
     finish_temp |-> dest]

SettingsSet ==
    { Setting(2, 40, 90, 2, finish),
      Setting(2, 40, 90, 2, waypoint),
      Setting(2, 40, 40, 2, finish),
      Setting(2, 40, 90, 4, finish),
      Setting(1, 40, 90, 2, finish),
      Setting(2, 40, 90, 1, waypoint),
      Setting(0, 40, 40, 2, finish) }

(***************************************************************************)
(* Date and time (datetime, timedelta) and round_time.  A datetime is the  *)
(* time passed since midnight of day 0, counted in ticks, the smallest     *)
(* fraction of a second the model resolves (a microsecond in datetime).    *)
(***************************************************************************)
TicksPerSecond == 4

SecondsPerDay == 86400

SecondsPerHour == 3600

\* datetime(day, 0:00:sec) plus sub ticks
Datetime(day, sec, sub) ==
    (day * SecondsPerDay + sec) * TicksPerSecond + sub

\* dt.microsecond, in ticks
Microsecond(dt) ==
    dt % TicksPerSecond

\* (dt.replace(tzinfo=None) - dt.min).seconds: timedelta.seconds leaves out
\* the days and the microseconds of the difference
SecondsOfDay(dt) ==
    (dt \div TicksPerSecond) % SecondsPerDay

\* (seconds + round_to / 2) // round_to * round_to, numerator and
\* denominator of the floor division doubled
Rounding(seconds, round_to) ==
    ((2 * seconds + round_to) \div (2 * round_to)) * round_to

\* round_time(dt, round_to):
\* dt + timedelta(0, rounding - seconds, -dt.microsecond)
round_time(dt, round_to) ==
    dt + (Rounding(SecondsOfDay(dt), round_to) - SecondsOfDay(dt)) * TicksPerSecond
       - Microsecond(dt)

(***************************************************************************)
(* WeatherCond, WeatherCondFromFile                                        *)
(***************************************************************************)
\* the smallest time resolution the time_res setter takes, in hours
MinTimeRes == 3

\* timedelta(hours=value) of the time_res setter, in seconds
TimeRes(value) ==
    value * SecondsPerHour

\* the time_start setter: round_time(value - time_res/2, time_res seconds)
TimeStart(value, res) ==
    round_time(value - (res * TicksPerSecond) \div 2, res)

\* the time_end setter: round_time(value + time_res/2, time_res seconds)
TimeEnd(value, res) ==
    round_time(value + (res * TicksPerSecond) \div 2, res)

\* WeatherCond.__init__(model, time, hours, time_res), tm for time; wind_vectors holds the
\* entries of the dictionary init_wind_vectors builds, entry i + 1 for key i,
\* and is empty until then
WeatherCond(tm, hours, time_res) ==
    LET res == TimeRes(time_res)
        time_start == TimeStart(tm, res)
        time_end == TimeEnd(tm + hours * SecondsPerHour * TicksPerSecond, res)
    IN [time_res     |-> res,
        time_start   |-> time_start,
        time_end     |-> time_end,
        time_steps   |-> (time_end - time_start) \div (res * TicksPerSecond),
        wind_vectors |-> <<>>]

\* what read_wind_vectors(time) returns, tm for time: the wind field u, v of
\* that time (named by the time it is read for) and the timestamp
read_wind_vectors(tm) ==
    [u |-> tm, timestamp |-> tm]

\* no wind vector
NoVector ==
    [u |-> -1, timestamp |-> -1]

\* the record kept in ret for a call of round_time or get_wind_vector:
\* the arguments, the exception raised ("none" if the call returned), the
\* datetime round_time returned and the wind vector get_wind_vector returned
Return(name, tm, round_to, raised, value, vector) ==
    [name |-> name, time |-> tm, round_to |-> round_to, raised |-> raised,
     value |-> value, vector |-> vector]

NoReturn ==
    Return("none", 0, 0, "none", 0, NoVector)

\* the weather object a routing run is handed: a forecast of HoursDefault
\* hours from the departure time at the smallest resolution
HoursDefault == 6

WeatherDefault ==
    WeatherCond(Datetime(0, DepartureTime, 0), HoursDefault, MinTimeRes)

(***************************************************************************)
(* __init__                                                                *)
(***************************************************************************)
\* ShipParams.set_default_array()
ShipParamsDefault ==
    [rpm |-> <<<<0>>>>, power |-> <<<<0>>>>, speed |-> <<<<0>>>>,
     fuel |-> <<<<0>>>>]

\* current_azimuth as left by RoutingAlg.__init__: the course of the route
InitialAzimuth ==
    <<Inverse(start.lat, start.lon, finish.lat, finish.lon).azi1>>

Init ==
    /\ lats_per_step = <<<<start.lat>>>>
    /\ lons_per_step = <<<<start.lon>>>>
    /\ azimuth_per_step = <<<<NoneAzimuth>>>>
    /\ dist_per_step = <<<<0>>>>
    /\ shipparams_per_step = ShipParamsDefault
    /\ starttime_per_step = <<<<DepartureTime>>>>
    /\ time = <<DepartureTime>>
    /\ full_time_traveled = <<0>>
    /\ full_fuel_consumed = <<0>>
    /\ full_dist_traveled = <<0>>
    /\ current_azimuth = InitialAzimuth
    /\ current_variant = InitialAzimuth
    /\ is_last_step = FALSE
    /\ is_pos_constraint_step = FALSE
    /\ count = 0
    /\ \E s \in SettingsSet :
          /\ finish_temp = s.finish_temp
          /\ variant_segments = s.variant_segments
          /\ variant_increments_deg = s.variant_increments_deg
          /\ prune_sector_deg_half = s.prune_sector_deg_half
          /\ prune_segments = s.prune_segments
    /\ gate = <<[now |-> FALSE, always |-> TRUE]>>
    /\ op = Call("init", FALSE, <<>>, FALSE)
    /\ log = "none"
    /\ weather = WeatherDefault
    /\ ret = NoReturn

(***************************************************************************)
(* define_variants                                                         *)
(***************************************************************************)
\* ShipParams.define_variants(variant_segments)
ShipParamsDefineVariants(sp, segments) ==
    [rpm   |-> RepeatAxis1(sp.rpm, segments + 1),
     power |-> RepeatAxis1(sp.power, segments + 1),
     speed |-> RepeatAxis1(sp.speed, segments + 1),
     fuel  |-> RepeatAxis1(sp.fuel, segments + 1)]

\* a bug variant of the fan: it starts at 0 instead of -segments/2*increments
DeltaHdgsOneSided(segments, increments) ==
    [k \in 1..(segments + 1) |-> (k - 1) * increments]

\* np.linspace(-segments/2*increments, +segments/2*increments, segments+1);
\* the increments of the model are even, so the values are whole degrees
DeltaHdgs(segments, increments) ==
    [k \in 1..(segments + 1) |->
        (k - 1) * increments - ((segments * increments) \div 2)]

\* new_azi['azi1']: course from every current position to finish_temp
AziToFinish ==
    [j \in 1..NofRoutes |->
        Inverse(lats_per_step[1][j], lons_per_step[1][j],
                finish_temp.lat, finish_temp.lon).azi1]

\* check_variant_def: the definition the class ends up with is the last one
\* in the class body, which does nothing
check_variant_def ==
    TRUE

define_variants ==
    LET nof_input_routes == NofRoutes
        new_azi == AziToFinish
        delta_hdgs == Tile(DeltaHdgs(variant_segments, variant_increments_deg),
                           nof_input_routes)
        centers == Repeat(new_azi, variant_segments + 1)
    IN /\ op.name # "terminate"
       /\ nof_input_routes * (variant_segments + 1) <= MaxCols
       /\ lats_per_step' = RepeatAxis1(lats_per_step, variant_segments + 1)
       /\ lons_per_step' = RepeatAxis1(lons_per_step, variant_segments + 1)
       /\ dist_per_step' = RepeatAxis1(dist_per_step, variant_segments + 1)
       /\ azimuth_per_step' = RepeatAxis1(azimuth_per_step, variant_segments + 1)
       /\ starttime_per_step' = RepeatAxis1(starttime_per_step, variant_segments + 1)
       /\ shipparams_per_step' =
              ShipParamsDefineVariants(shipparams_per_step, variant_segments)
       /\ full_time_traveled' = Repeat(full_time_traveled, variant_segments + 1)
       /\ full_fuel_consumed' = Repeat(full_fuel_consumed, variant_segments + 1)
       /\ full_dist_traveled' = Repeat(full_dist_traveled, variant_segments + 1)
       /\ time' = Repeat(time, variant_segments + 1)
       /\ check_variant_def
       /\ current_variant' =
              [i \in 1..Len(centers) |-> centers[i] - delta_hdgs[i]]
       /\ gate' = Repeat(gate, variant_segments + 1)
       /\ op' = Call("define_variants", FALSE, <<>>, FALSE)
       /\ UNCHANGED <<current_azimuth, count, flag_vars, settings_vars, log, weather_vars>>

(***************************************************************************)
(* move_boat_direct                                                        *)
(***************************************************************************)
\* what boat.get_fuel_per_time_netCDF and get_delta_variables_netCDF hand
\* back for n candidates: the ship parameters of the step, the step
\* duration, the fuel and the distance of every candidate
PerfOutputs(n) ==
    { [dist       |-> Full(n, 1),
       delta_time |-> 1,
       delta_fuel |-> Full(n, 1),
       rpm        |-> [i \in 1..n |-> 100 + i],
       power      |-> [i \in 1..n |-> 200 + i],
       speed      |-> Full(n, 1)],
      [dist       |-> [i \in 1..n |-> 1 + (i % 2)],
       delta_time |-> 3,
       delta_fuel |-> [i \in 1..n |-> i],
       rpm        |-> [i \in 1..n |-> 110 + i],
       power      |-> [i \in 1..n |-> 210 + i],
       speed      |-> [i \in 1..n |-> 1 + (i % 2)]] }

\* what get_delta_variables_netCDF_last_step hands back
LastStepOutputs(n) ==
    { [dist |-> Full(n, 1), delta_time |-> 2, delta_fuel |-> Full(n, 2)] }

\* what constraint_list.safe_crossing hands back for n candidates: nobody
\* blocked, everybody blocked, the odd columns blocked, column 2 blocked
ConstraintOutcomes(n) ==
    { [j \in 1..n |-> FALSE], [j \in 1..n |-> TRUE],
      [j \in 1..n |-> j % 2 = 1], [j \in 1..n |-> j = 2] }

\* dist_to_dest: geod.inverse from every current position to finish_temp
DistToDest ==
    [j \in 1..NofRoutes |->
        Inverse(lats_per_step[1][j], lons_per_step[1][j],
                finish_temp.lat, finish_temp.lon)]

\* a bug variant of the arrival test: a candidate exactly one step away from
\* the destination counts as arriving (<= instead of <)
ReachingDestInclusive(dist) ==
    \E j \in 1..NofRoutes : DistToDest[j].s12 <= dist[j]

\* reaching_dest = np.any(dist_to_dest['s12'] < dist)
ReachingDest(dist) ==
    \E j \in 1..NofRoutes : DistToDest[j].s12 < dist[j]

\* a bug variant of reached_final: the latitudes are compared only
ReachedFinalLatOnly ==
    finish_temp.lat = finish.lat

\* reached_final
ReachedFinal ==
    finish_temp.lat = finish.lat /\ finish_temp.lon = finish.lon

\* a variant of check_bearing that decides for every candidate on its own:
\* only the candidates that arrive are sent to finish_temp
check_bearing_per_candidate(dist) ==
    LET arrives == [j \in 1..NofRoutes |-> DistToDest[j].s12 < dist[j]]
        moved == [j \in 1..NofRoutes |->
                     Direct(lats_per_step[1][j], lons_per_step[1][j],
                            current_variant[j], dist[j])]
    IN [azi2 |-> [j \in 1..NofRoutes |->
                     IF arrives[j] THEN DistToDest[j].azi1 ELSE moved[j].azi2],
        lat2 |-> [j \in 1..NofRoutes |->
                     IF arrives[j] THEN finish_temp.lat ELSE moved[j].lat2],
        lon2 |-> [j \in 1..NofRoutes |->
                     IF arrives[j] THEN finish_temp.lon ELSE moved[j].lon2]]

\* the move check_bearing returns
check_bearing(dist) ==
    IF ReachingDest(dist)
    THEN [azi2 |-> [j \in 1..NofRoutes |-> DistToDest[j].azi1],
          lat2 |-> Full(NofRoutes, finish_temp.lat),
          lon2 |-> Full(NofRoutes, finish_temp.lon)]
    ELSE [azi2 |-> [j \in 1..NofRoutes |->
                       Direct(lats_per_step[1][j], lons_per_step[1][j],
                              current_variant[j], dist[j]).azi2],
          lat2 |-> [j \in 1..NofRoutes |->
                       Direct(lats_per_step[1][j], lons_per_step[1][j],
                              current_variant[j], dist[j]).lat2],
          lon2 |-> [j \in 1..NofRoutes |->
                       Direct(lats_per_step[1][j], lons_per_step[1][j],
                              current_variant[j], dist[j]).lon2]]

\* gcrs: geod.inverse from start_temp to every new position
Gcrs(move) ==
    [j \in 1..Len(move.lat2) |->
        Inverse(start_temp.lat, start_temp.lon, move.lat2[j], move.lon2[j])]

\* a bug variant of the progress metric: blocked candidates keep their distance
ProgressUnblocked(move, is_constrained) ==
    [j \in 1..Len(move.lat2) |-> Gcrs(move)[j].s12]

\* gcrs['s12'] after gcrs['s12'][is_constrained] = 0
Progress(move, is_constrained) ==
    [j \in 1..Len(move.lat2) |->
        IF is_constrained[j] THEN 0 ELSE Gcrs(move)[j].s12]

\* a bug variant of update_position: the distance row is not committed
update_position_no_dist(move, is_constrained, dist) ==
    /\ lats_per_step' = VStack(move.lat2, lats_per_step)
    /\ lons_per_step' = VStack(move.lon2, lons_per_step)
    /\ dist_per_step' = dist_per_step
    /\ azimuth_per_step' = VStack(current_variant, azimuth_per_step)
    /\ current_variant' = [j \in 1..Len(move.lat2) |-> Gcrs(move)[j].azi1]
    /\ current_azimuth' = [j \in 1..Len(move.lat2) |-> Gcrs(move)[j].azi1]
    /\ full_dist_traveled' = Progress(move, is_constrained)

update_position(move, is_constrained, dist) ==
    /\ lats_per_step' = VStack(move.lat2, lats_per_step)
    /\ lons_per_step' = VStack(move.lon2, lons_per_step)
    /\ dist_per_step' = VStack(dist, dist_per_step)
    /\ azimuth_per_step' = VStack(current_variant, azimuth_per_step)
    /\ current_variant' = [j \in 1..Len(move.lat2) |-> Gcrs(move)[j].azi1]
    /\ current_azimuth' = [j \in 1..Len(move.lat2) |-> Gcrs(move)[j].azi1]
    /\ full_dist_traveled' = Progress(move, is_constrained)

\* a bug variant of update_time: the absolute time is not advanced
update_time_no_clock(delta_time) ==
    /\ full_time_traveled' =
           [i \in 1..Len(full_time_traveled) |-> full_time_traveled[i] + delta_time]
    /\ UNCHANGED <<time, starttime_per_step>>

\* update_time(delta_time), the definition that takes the one argument
\* move_boat_direct passes; starttime_per_step is not touched
update_time(delta_time) ==
    /\ full_time_traveled' =
           [i \in 1..Len(full_time_traveled) |-> full_time_traveled[i] + delta_time]
    /\ time' = [i \in 1..Len(time) |-> time[i] + delta_time]
    /\ UNCHANGED starttime_per_step

\* the fuel array update_fuel leaves in shipparams_per_step
FuelStacked(delta_fuel) ==
    VStack(delta_fuel, shipparams_per_step.fuel)

\* full_fuel_consumed after update_fuel
FuelConsumed(delta_fuel) ==
    [i \in 1..Len(full_fuel_consumed) |-> full_fuel_consumed[i] + delta_fuel[i]]

\* update_fuel followed by update_shipparams
update_fuel_shipparams(delta_fuel, ship_params) ==
    /\ full_fuel_consumed' = FuelConsumed(delta_fuel)
    /\ shipparams_per_step' =
           [rpm   |-> VStack(ship_params.rpm, shipparams_per_step.rpm),
            power |-> VStack(ship_params.power, shipparams_per_step.power),
            speed |-> VStack(ship_params.speed, shipparams_per_step.speed),
            fuel  |-> FuelStacked(delta_fuel)]

move_boat_direct ==
    /\ op.name # "terminate"
    /\ count < MaxCount
    /\ NofRoutes >= 1          \* self.time[0] needs a candidate
    /\ \E perf \in PerfOutputs(NofRoutes),
          last \in LastStepOutputs(NofRoutes),
          is_constrained \in ConstraintOutcomes(NofRoutes) :
         \E move \in {check_bearing(perf.dist)} :
         LET reaching == ReachingDest(perf.dist)
             last_step == is_last_step \/ (reaching /\ ReachedFinal)
             pos_constraint_step ==
                 is_pos_constraint_step \/ (reaching /\ ~ReachedFinal)
             redo == last_step \/ pos_constraint_step
             delta_time == IF redo THEN last.delta_time ELSE perf.delta_time
             delta_fuel == IF redo THEN last.delta_fuel ELSE perf.delta_fuel
             dist == IF redo THEN last.dist ELSE perf.dist
         IN /\ redo \/ last = CHOOSE l \in LastStepOutputs(NofRoutes) : TRUE
            /\ is_last_step' = last_step
            /\ is_pos_constraint_step' = pos_constraint_step
            /\ update_position(move, is_constrained, dist)
            /\ update_time(delta_time)
            /\ update_fuel_shipparams(delta_fuel, perf)
            /\ count' = count + 1
            /\ gate' = [j \in 1..NofRoutes |->
                           [now    |-> is_constrained[j],
                            always |-> gate[j].always /\ is_constrained[j]]]
            /\ op' = MoveCall(perf.dist, delta_time)
            /\ UNCHANGED <<settings_vars, log, weather_vars>>

(***************************************************************************)
(* pruning                                                                 *)
(***************************************************************************)
\* np.mean(full_dist_traveled), in whole lattice moves
MeanDist ==
    SumSeq(full_dist_traveled) \div Len(full_dist_traveled)

\* new_azi['azi1'] of pruning_gcr_centered: the course to finish_temp from the
\* point reached from start_temp along the great circle after the mean distance
SymmetryAzimuth ==
    LET gcr_point == Direct(start_temp.lat, start_temp.lon, gcr_azi_temp, MeanDist)
    IN Inverse(gcr_point.lat2, gcr_point.lon2, finish_temp.lat, finish_temp.lon).azi1

\* bins of pruning_gcr_centered: np.sort(azi0s - np.linspace(-half, +half, seg+1)).
\* The edges are kept multiplied by seg, which makes them whole numbers:
\* edge k is azi0 - half + (k-1) * 2*half/seg.
GcrCenteredBins ==
    [k \in 1..(prune_segments + 1) |->
        (SymmetryAzimuth - prune_sector_deg_half) * prune_segments
        + (k - 1) * 2 * prune_sector_deg_half]

\* bin_number of binned_statistic for value x: bin i is [edge i, edge i+1),
\* the last bin includes its right edge, values outside all bins get 0
BinNumber(x, bins, scale) ==
    LET nb == Len(bins) - 1
        xs == x * scale
    IN IF \E i \in 1..nb : bins[i] <= xs /\ xs < bins[i + 1]
       THEN CHOOSE i \in 1..nb : bins[i] <= xs /\ xs < bins[i + 1]
       ELSE IF xs = bins[nb + 1] THEN nb ELSE 0

\* the candidates of bin i
BinMembers(i, bins, scale) ==
    {j \in 1..Len(current_variant) : BinNumber(current_variant[j], bins, scale) = i}

\* bin_stat[i]: np.nanmax of full_dist_traveled over the bin, nan when empty
BinStat(i, bins, scale) ==
    LET vals == {full_dist_traveled[j] : j \in BinMembers(i, bins, scale)}
    IN IF vals = {} THEN NaN
       ELSE CHOOSE v \in vals : \A w \in vals : w <= v

\* np.where(self.full_dist_traveled == value)[0]
WhereDist(value) ==
    {j \in 1..Len(full_dist_traveled) : full_dist_traveled[j] = value}

\* idxs of the branch without trimming: every index np.where finds for any bin
IdxsUntrimmed(bins, scale) ==
    UNION {WhereDist(BinStat(i, bins, scale)) : i \in 1..(Len(bins) - 1)}

\* a bug variant of the trimming branch: bins with maximum 0 are not skipped
IdxsTrimmedKeepZero(bins, scale) ==
    {CHOOSE j \in WhereDist(BinStat(i, bins, scale)) :
         \A k \in WhereDist(BinStat(i, bins, scale)) : j <= k :
       i \in {b \in 1..(Len(bins) - 1) :
                 WhereDist(BinStat(b, bins, scale)) # {}}}

\* a bug variant of the trimming branch: every index np.where finds is kept
\* ([0] instead of [0][0]), and bins with maximum 0 are not skipped
IdxsTrimmedEveryMatch(bins, scale) ==
    UNION {WhereDist(BinStat(i, bins, scale)) : i \in 1..(Len(bins) - 1)}

\* idxs of the trimming branch: for every bin whose maximum is not 0, the
\* first index np.where finds (none for an empty bin: IndexError, passed)
IdxsTrimmed(bins, scale) ==
    {CHOOSE j \in WhereDist(BinStat(i, bins, scale)) :
         \A k \in WhereDist(BinStat(i, bins, scale)) : j <= k :
       i \in {b \in 1..(Len(bins) - 1) :
                 /\ BinStat(b, bins, scale) # 0
                 /\ WhereDist(BinStat(b, bins, scale)) # {}}}

\* idxs = list(set(idxs))
PrunedIdxs(trim, bins, scale) ==
    SortedSeq(IF trim THEN IdxsTrimmed(bins, scale)
                      ELSE IdxsUntrimmed(bins, scale))

\* the message logged for the number of valid pruning segments
PruningLog(valid_pruning_segments) ==
    IF valid_pruning_segments = 0 THEN "error"
    ELSE IF 10 * valid_pruning_segments < prune_segments THEN "warning90"
    ELSE IF 2 * valid_pruning_segments < prune_segments THEN "warning50"
    ELSE "none"

\* ShipParams.select(idxs)
ShipParamsSelect(sp, idxs) ==
    [rpm   |-> TakeAxis1(sp.rpm, idxs),
     power |-> TakeAxis1(sp.power, idxs),
     speed |-> TakeAxis1(sp.speed, idxs),
     fuel  |-> TakeAxis1(sp.fuel, idxs)]

\* the column counts of the containers the try block indexes with idxs, in
\* the order of its assignments (lines 274-287); current_variant is indexed
\* twice, first for current_azimuth
PrunedWidths ==
    <<Cols(lats_per_step), Cols(lons_per_step), Cols(azimuth_per_step),
      Cols(dist_per_step), Cols(shipparams_per_step.rpm),
      Cols(starttime_per_step), Len(current_variant), Len(current_variant),
      Len(full_dist_traveled), Len(full_time_traveled),
      Len(full_fuel_consumed), Len(time)>>

\* the first assignment of the try block that raises IndexError (an index of
\* idxs does not exist in the container), Len(PrunedWidths)+1 if none does
FirstIndexError(idxs) ==
    LET bad == {p \in 1..Len(PrunedWidths) :
                   \E k \in 1..Len(idxs) : idxs[k] > PrunedWidths[p]}
    IN IF bad = {} THEN Len(PrunedWidths) + 1
       ELSE CHOOSE p \in bad : \A q \in bad : p <= q

\* a bug variant of the handler: the IndexError is passed, as in the loop of
\* the trimming branch
PruningRaisesNever(idxs) ==
    FALSE

\* except IndexError: raise Exception('Pruned indices running out of bounds.')
PruningRaises(idxs) ==
    FirstIndexError(idxs) <= Len(PrunedWidths)

\* the assignments of the try block run in order up to the first one that
\* raises; the ones before it have replaced their containers
pruning(trim, bins, scale) ==
    \E idxs \in {PrunedIdxs(trim, bins, scale)} :
    \E stop \in {FirstIndexError(idxs)} :
       /\ log' = PruningLog(Len(idxs))
       /\ lats_per_step' =
              IF stop > 1 THEN TakeAxis1(lats_per_step, idxs) ELSE lats_per_step
       /\ lons_per_step' =
              IF stop > 2 THEN TakeAxis1(lons_per_step, idxs) ELSE lons_per_step
       /\ azimuth_per_step' =
              IF stop > 3 THEN TakeAxis1(azimuth_per_step, idxs)
              ELSE azimuth_per_step
       /\ dist_per_step' =
              IF stop > 4 THEN TakeAxis1(dist_per_step, idxs) ELSE dist_per_step
       /\ shipparams_per_step' =
              IF stop > 5 THEN ShipParamsSelect(shipparams_per_step, idxs)
              ELSE shipparams_per_step
       /\ starttime_per_step' =
              IF stop > 6 THEN TakeAxis1(starttime_per_step, idxs)
              ELSE starttime_per_step
       /\ current_azimuth' =
              IF stop > 7 THEN Take(current_variant, idxs) ELSE current_azimuth
       /\ current_variant' =
              IF stop > 8 THEN Take(current_variant, idxs) ELSE current_variant
       /\ full_dist_traveled' =
              IF stop > 9 THEN Take(full_dist_traveled, idxs)
              ELSE full_dist_traveled
       /\ full_time_traveled' =
              IF stop > 10 THEN Take(full_time_traveled, idxs)
              ELSE full_time_traveled
       /\ full_fuel_consumed' =
              IF stop > 11 THEN Take(full_fuel_consumed, idxs)
              ELSE full_fuel_consumed
       /\ time' = IF stop > 12 THEN Take(time, idxs) ELSE time
       /\ gate' = IF stop > 1 THEN Take(gate, idxs) ELSE gate
       /\ op' = Call("pruning", trim, idxs, PruningRaises(idxs))
       /\ UNCHANGED <<count, flag_vars, settings_vars, weather_vars>>

\* np.mean of an empty vector is nan and no bins can be built from it, so a
\* pass needs a candidate
pruning_gcr_centered ==
    /\ op.name # "terminate"
    /\ NofRoutes >= 1
    /\ \E trim \in BOOLEAN : pruning(trim, GcrCenteredBins, prune_segments)

\* new_azi['azi1'] of pruning_headings_centered: the course of every
\* candidate from its current position to finish_temp
AzimuthsToFinish ==
    [j \in 1..NofRoutes |-> DistToDest[j].azi1]

\* np.sort(v): the k-th entry is the smallest value that has k entries of v
\* at or below it
SortAsc(v) ==
    [k \in 1..Len(v) |->
        CHOOSE x \in {v[i] : i \in 1..Len(v)} :
            /\ Cardinality({i \in 1..Len(v) : v[i] <= x}) >= k
            /\ \A y \in {v[i] : i \in 1..Len(v)} :
                  Cardinality({i \in 1..Len(v) : v[i] <= y}) >= k => x <= y]

\* int(np.round(n / 2)): np.round rounds a half to the even neighbour
MedianIndex(n) ==
    IF n % 2 = 0 THEN n \div 2
    ELSE IF (n \div 2) % 2 = 0 THEN n \div 2 ELSE n \div 2 + 1

\* mean_azimuth = new_azi_sorted[meadian_indx] (the index counts from 0)
MeanAzimuth ==
    SortAsc(AzimuthsToFinish)[MedianIndex(NofRoutes) + 1]

\* bins of pruning_headings_centered: np.linspace(mean_azimuth - half,
\* mean_azimuth + half, seg + 1), sorted; the edges are kept multiplied by seg
HeadingsCenteredBins ==
    [k \in 1..(prune_segments + 1) |->
        (MeanAzimuth - prune_sector_deg_half) * prune_segments
        + (k - 1) * 2 * prune_sector_deg_half]

\* new_azi_sorted[meadian_indx] needs a candidate
pruning_headings_centered ==
    /\ op.name # "terminate"
    /\ NofRoutes >= 1
    /\ \E trim \in BOOLEAN :
          pruning(trim, HeadingsCenteredBins, prune_segments)

(***************************************************************************)
(* check_settings                                                          *)
(***************************************************************************)
\* a bug variant: the fan may be exactly as wide as the pruning sector
SettingsErrorStrict ==
    \/ variant_segments * variant_increments_deg > 2 * prune_sector_deg_half
    \/ variant_segments % 2 # 0
    \/ prune_segments % 2 # 0

\* the conditions under which check_settings raises ValueError;
\* variant_segments/2*variant_increments_deg >= prune_sector_deg_half,
\* both sides doubled
SettingsError ==
    \/ variant_segments * variant_increments_deg >= 2 * prune_sector_deg_half
    \/ variant_segments % 2 # 0
    \/ prune_segments % 2 # 0

\* check_settings reads the settings only, and no operation changes them:
\* the model calls it before the first step
check_settings ==
    /\ count = 0
    /\ op.name \notin {"check_settings", "terminate"}
    /\ op' = Call("check_settings", FALSE, <<>>, SettingsError)
    /\ UNCHANGED <<per_step_vars, per_candidate_vars, count, flag_vars,
                   settings_vars, gate, log, weather_vars>>

(***************************************************************************)
(* terminate                                                               *)
(***************************************************************************)
\* what a method that ends in pass returns (None): no column
NoIndex ==
    0

\* get_final_index: the definition the class ends up with is the last one in
\* the class body, which returns nothing
get_final_index ==
    NoIndex

\* ShipParams.flip()
ShipParamsFlip(sp) ==
    [rpm   |-> Flip(sp.rpm),
     power |-> Flip(sp.power),
     speed |-> Flip(sp.speed),
     fuel  |-> Flip(sp.fuel)]

\* the routing loop of RoutingAlg has ended: the terminal-step flag is set or
\* the step budget is exhausted
LoopEnded ==
    is_last_step \/ count = MaxCount

\* check_isochrones(route): the body is pass, so it accepts every route
check_isochrones ==
    TRUE

\* terminate: the per-step containers are reversed along the step axis, then
\* RoutingAlg.terminate builds the route of the column get_final_index
\* returns (kept in op.idxs) and check_isochrones, which does nothing, gets it
terminate ==
    /\ LoopEnded
    /\ lats_per_step' = Flip(lats_per_step)
    /\ lons_per_step' = Flip(lons_per_step)
    /\ azimuth_per_step' = Flip(azimuth_per_step)
    /\ dist_per_step' = Flip(dist_per_step)
    /\ starttime_per_step' = Flip(starttime_per_step)
    /\ shipparams_per_step' = ShipParamsFlip(shipparams_per_step)
    /\ op' = Call("terminate", FALSE, <<get_final_index>>, ~check_isochrones)
    /\ UNCHANGED <<per_candidate_vars, count, flag_vars, settings_vars,
                   gate, log, weather_vars>>

(***************************************************************************)
(* Specification                                                           *)
(***************************************************************************)
Next ==
    \/ define_variants
    \/ move_boat_direct
    \/ pruning_gcr_centered
    \/ check_settings
    \/ terminate

Spec ==
    Init /\ [][Next]_vars

(***************************************************************************)
(* define_variants and pruning as functions of the object: the object is   *)
(* taken after one step, with containers whose shapes need not agree, and  *)
(* one of the two is called on it.  The containers the indices of a        *)
(* pruning pass are computed from (current_variant, full_dist_traveled)    *)
(* and the positions keep n columns; azimuth_per_step, dist_per_step and   *)
(* full_time_traveled have column counts of their own, dist_per_step may   *)
(* have a row too many, and candidate b, if there is one, is blocked.      *)
(***************************************************************************)
\* the heading of candidate j, a compass course
HeadingOf(j) ==
    (135 + 315 * (j - 1)) % 360

InitAnyShape ==
    \E n \in 1..(MaxCols - 1), a \in 1..(MaxCols - 1), d \in 1..(MaxCols - 1),
       t \in 1..(MaxCols - 1), b \in 0..(MaxCols - 1), extra \in 0..1,
       s \in SettingsSet :
        /\ count = 1
        /\ lats_per_step =
               <<[j \in 1..n |-> Direct(start.lat, start.lon, HeadingOf(j), 1).lat2],
                 [j \in 1..n |-> start.lat]>>
        /\ lons_per_step =
               <<[j \in 1..n |-> Direct(start.lat, start.lon, HeadingOf(j), 1).lon2],
                 [j \in 1..n |-> start.lon]>>
        /\ azimuth_per_step =
               <<[j \in 1..a |-> HeadingOf(j)], [j \in 1..a |-> NoneAzimuth]>>
        /\ dist_per_step =
               <<[j \in 1..d |-> 1]>> \o [r \in 1..(1 + extra) |-> [j \in 1..d |-> 0]]
        /\ starttime_per_step = <<[j \in 1..n |-> DepartureTime]>>
        /\ shipparams_per_step =
               [rpm   |-> <<[j \in 1..n |-> 100 + j], [j \in 1..n |-> 0]>>,
                power |-> <<[j \in 1..n |-> 200 + j], [j \in 1..n |-> 0]>>,
                speed |-> <<[j \in 1..n |-> 1], [j \in 1..n |-> 0]>>,
                fuel  |-> <<[j \in 1..n |-> j], [j \in 1..n |-> 0]>>]
        /\ time = [j \in 1..n |-> DepartureTime + 1]
        /\ full_time_traveled = [j \in 1..t |-> 1]
        /\ full_fuel_consumed = [j \in 1..n |-> j]
        /\ full_dist_traveled = [j \in 1..n |-> IF j = b THEN 0 ELSE 1]
        /\ current_azimuth = [j \in 1..n |-> HeadingOf(j)]
        /\ current_variant = [j \in 1..n |-> HeadingOf(j)]
        /\ is_last_step = FALSE
        /\ is_pos_constraint_step = FALSE
        /\ finish_temp = s.finish_temp
        /\ variant_segments = s.variant_segments
        /\ variant_increments_deg = s.variant_increments_deg
        /\ prune_sector_deg_half = s.prune_sector_deg_half
        /\ prune_segments = s.prune_segments
        /\ gate = [j \in 1..n |-> [now |-> j = b, always |-> j = b]]
        /\ op = Call("init", FALSE, <<>>, FALSE)
        /\ log = "none"
        /\ weather = WeatherDefault
        /\ ret = NoReturn

NextAnyShape ==
    \/ op.name = "init" /\ define_variants
    \/ op.name = "init" /\ pruning_gcr_centered

SpecAnyShape ==
    InitAnyShape /\ [][NextAnyShape]_vars

(***************************************************************************)
(* The search with the other pruning strategy, pruning_headings_centered   *)
(***************************************************************************)
NextHeadings ==
    \/ define_variants
    \/ move_boat_direct
    \/ pruning_headings_centered

SpecHeadings ==
    Init /\ [][NextHeadings]_vars

(***************************************************************************)
(* The routing loop of RoutingAlg.execute_routing: check_settings is       *)
(* called on the configured object, an error it raises ends the run, and   *)
(* only then define_variants, move_boat_direct and pruning are called      *)
(* until the loop ends and terminate extracts the route.                   *)
(***************************************************************************)
\* the calls of the loop body
StepNames ==
    {"define_variants", "move_boat_direct", "pruning"}

\* check_settings has returned without raising, or the loop is running
SettingsChecked ==
    \/ op.name = "check_settings" /\ ~op.raised
    \/ op.name \in StepNames

NextRouting ==
    \/ op.name = "init" /\ check_settings
    \/ SettingsChecked /\ define_variants
    \/ SettingsChecked /\ move_boat_direct
    \/ SettingsChecked /\ pruning_gcr_centered
    \/ SettingsChecked /\ terminate

SpecRouting ==
    Init /\ [][NextRouting]_vars

(***************************************************************************)
(* The weather object and round_time as functions of their arguments:      *)
(* weather objects are constructed, their wind vectors read, their start   *)
(* time set again, and get_wind_vector and round_time are called with      *)
(* times around the forecast steps and around the ends of a day.           *)
(***************************************************************************)
\* seconds of a day the calls are made at: around midnight, around half a
\* smallest time step (1:30), at full time steps and forecast hours, and
\* the last second of the day
DaySeconds ==
    {0, 1, 2, 5399, 5400, 5401, 10800, 18000, 21600, 86399}

\* values of round_to: a second, three seconds, a minute, three hours
RoundTos ==
    {1, 3, 60, TimeRes(MinTimeRes)}

\* datetimes round_time and get_wind_vector are called with
Datetimes ==
    {Datetime(day, sec, sub) :
        day \in 1..2, sec \in DaySeconds, sub \in {0, TicksPerSecond - 1}}

\* arguments of WeatherCond.__init__ and of the time_start setter
StartTimes ==
    {Datetime(1, 0, 0), Datetime(1, 5400, 0), Datetime(1, 21600, 1)}

ForecastHours ==
    {6, 9}

TimeResolutions ==
    {2, 3, 5}

\* round_time(dt, round_to)
round_time_call ==
    /\ \E dt \in Datetimes, round_to \in RoundTos :
          ret' = Return("round_time", dt, round_to, "none",
                        round_time(dt, round_to), NoVector)
    /\ UNCHANGED <<per_step_vars, per_candidate_vars, count, flag_vars,
                   settings_vars, gate, op, log, weather>>

\* WeatherCondFromFile(model, time, hours, time_res, filepath): the time_res
\* setter raises ValueError below MinTimeRes and no object is made
WeatherCondInit ==
    /\ \E tm \in StartTimes, hours \in ForecastHours,
          time_res \in TimeResolutions :
          IF time_res < MinTimeRes
          THEN /\ ret' = Return("WeatherCond", tm, 0, "ValueError", 0, NoVector)
               /\ UNCHANGED weather
          ELSE /\ ret' = Return("WeatherCond", tm, 0, "none", 0, NoVector)
               /\ weather' = WeatherCond(tm, hours, time_res)
    /\ UNCHANGED <<per_step_vars, per_candidate_vars, count, flag_vars,
                   settings_vars, gate, op, log>>

\* the time_start setter
set_time_start ==
    /\ \E value \in StartTimes :
          /\ weather' = [weather EXCEPT
                            !.time_start = TimeStart(value, weather.time_res)]
          /\ ret' = Return("time_start", value, 0, "none", 0, NoVector)
    /\ UNCHANGED <<per_step_vars, per_candidate_vars, count, flag_vars,
                   settings_vars, gate, op, log>>

\* init_wind_vectors: wind_vectors[i] = read_wind_vectors(time_start +
\* time_res * i) for i in range(time_steps)
init_wind_vectors ==
    /\ weather' = [weather EXCEPT
          !.wind_vectors =
              [i \in 1..weather.time_steps |->
                  read_wind_vectors(
                      weather.time_start
                      + weather.time_res * TicksPerSecond * (i - 1))]]
    /\ ret' = Return("init_wind_vectors", 0, 0, "none", 0, NoVector)
    /\ UNCHANGED <<per_step_vars, per_candidate_vars, count, flag_vars,
                   settings_vars, gate, op, log>>

\* get_time_step_index(time), tm for time: idx is the quotient
\* time_passed / time_res, kept as the pair passed, res
get_time_step_index(tm) ==
    LET rounded_time == round_time(tm, weather.time_res)
    IN [rounded_time |-> rounded_time,
        passed       |-> rounded_time - weather.time_start,
        res          |-> weather.time_res * TicksPerSecond]

\* the dictionary wind_vectors has the key idx: idx is a whole number in
\* range(time_steps)
HasKey(idx) ==
    /\ idx.passed % idx.res = 0
    /\ idx.passed \div idx.res >= 0
    /\ idx.passed \div idx.res < Len(weather.wind_vectors)

\* a bug variant: the timestamp of the entry is never compared
WrongForecastNever(rounded_time, wind_timestamp) ==
    FALSE

\* not (rounded_time == wind_timestamp)
WrongForecast(rounded_time, wind_timestamp) ==
    rounded_time # wind_timestamp

\* get_wind_vector(time), tm for time
get_wind_vector ==
    /\ \E tm \in Datetimes :
       \E idx \in {get_time_step_index(tm)} :
          ret' =
            IF ~HasKey(idx)
            THEN Return("get_wind_vector", tm, 0, "KeyError", 0, NoVector)
            ELSE IF WrongForecast(
                        idx.rounded_time,
                        weather.wind_vectors[idx.passed \div idx.res + 1].timestamp)
            THEN Return("get_wind_vector", tm, 0, "Exception", 0, NoVector)
            ELSE Return("get_wind_vector", tm, 0, "none", 0,
                        weather.wind_vectors[idx.passed \div idx.res + 1])
    /\ UNCHANGED <<per_step_vars, per_candidate_vars, count, flag_vars,
                   settings_vars, gate, op, log, weather>>

\* the routing object is left as constructed, with the first of the settings
InitWeather ==
    /\ Init
    /\ Setting(variant_segments, variant_increments_deg, prune_sector_deg_half,
               prune_segments, finish_temp) = Setting(2, 40, 90, 2, finish)

NextWeather ==
    \/ round_time_call
    \/ WeatherCondInit
    \/ set_time_start
    \/ init_wind_vectors
    \/ get_wind_vector

SpecWeather ==
    InitWeather /\ [][NextWeather]_vars

(***************************************************************************)
(* Properties                                                              *)
(***************************************************************************)
\* an (M,N) array with rows rows and cols columns in every row
HasShape(m, rows, cols) ==
    /\ Len(m) = rows
    /\ \A r \in 1..Len(m) : Len(m[r]) = cols

C2_AllPerStepShapes ==
    op.name = "move_boat_direct" =>
        /\ HasShape(lats_per_step, count + 1, NofRoutes)
        /\ HasShape(lons_per_step, count + 1, NofRoutes)
        /\ HasShape(azimuth_per_step, count + 1, NofRoutes)
        /\ HasShape(dist_per_step, count + 1, NofRoutes)
        /\ HasShape(starttime_per_step, count + 1, NofRoutes)
        /\ HasShape(shipparams_per_step.rpm, count + 1, NofRoutes)
        /\ HasShape(shipparams_per_step.power, count + 1, NofRoutes)
        /\ HasShape(shipparams_per_step.speed, count + 1, NofRoutes)
        /\ HasShape(shipparams_per_step.fuel, count + 1, NofRoutes)

\* C3 (as claimed): after define_variants, move_boat_direct and pruning every
\* per-candidate vector has as many entries as lats_per_step has columns.
C3_PerCandidateLengths ==
    op.name \in {"define_variants", "move_boat_direct", "pruning"} =>
        /\ Len(full_dist_traveled) = NofRoutes
        /\ Len(full_time_traveled) = NofRoutes
        /\ Len(full_fuel_consumed) = NofRoutes
        /\ Len(time) = NofRoutes
        /\ Len(current_variant) = NofRoutes
        /\ Len(current_azimuth) = NofRoutes

C5_Replication ==
    [][op'.name = "define_variants" =>
        /\ count' = count
        /\ Rows(lats_per_step') = Rows(lats_per_step)
        /\ Rows(starttime_per_step') = Rows(starttime_per_step)
        /\ Rows(shipparams_per_step'.fuel) = Rows(shipparams_per_step.fuel)
        /\ \A i \in 1..Cols(lats_per_step') :
             LET p == ((i - 1) \div (variant_segments + 1)) + 1
             IN /\ \A r \in 1..Rows(lats_per_step) :
                     /\ lats_per_step'[r][i] = lats_per_step[r][p]
                     /\ lons_per_step'[r][i] = lons_per_step[r][p]
                     /\ azimuth_per_step'[r][i] = azimuth_per_step[r][p]
                     /\ dist_per_step'[r][i] = dist_per_step[r][p]
                /\ \A r \in 1..Rows(starttime_per_step) :
                     starttime_per_step'[r][i] = starttime_per_step[r][p]
                /\ \A r \in 1..Rows(shipparams_per_step.rpm) :
                     /\ shipparams_per_step'.rpm[r][i] = shipparams_per_step.rpm[r][p]
                     /\ shipparams_per_step'.power[r][i] = shipparams_per_step.power[r][p]
                     /\ shipparams_per_step'.speed[r][i] = shipparams_per_step.speed[r][p]
                     /\ shipparams_per_step'.fuel[r][i] = shipparams_per_step.fuel[r][p]
                /\ full_dist_traveled'[i] = full_dist_traveled[p]
                /\ full_time_traveled'[i] = full_time_traveled[p]
                /\ full_fuel_consumed'[i] = full_fuel_consumed[p]
                /\ time'[i] = time[p]
      ]_vars

\* C5 witness: four children of two parents whose histories differ
C5_Witness ==
    /\ op.name = "define_variants"
    /\ count >= 1
    /\ NofRoutes = 4
    /\ lons_per_step[1][1] = lons_per_step[1][2]
    /\ lons_per_step[1][2] # lons_per_step[1][3]
    /\ lons_per_step[1][3] = lons_per_step[1][4]

BinOf(j) ==
    BinNumber(current_variant[j], GcrCenteredBins, prune_segments)

\* the candidates of bin i whose progress is the maximum of the bin
BestOfBin(i) ==
    {j \in 1..NofRoutes :
        /\ BinOf(j) = i
        /\ \A k \in 1..NofRoutes : BinOf(k) = i =>
               full_dist_traveled[k] <= full_dist_traveled[j]}

\* the bins with a candidate of positive progress
PositiveBins ==
    {i \in 1..prune_segments :
        \E j \in 1..NofRoutes : BinOf(j) = i /\ full_dist_traveled[j] > 0}

\* C7 (as claimed): in a trimming pass every bin with a positive maximum
\* contributes the lowest-indexed candidate among those of the bin that have
\* the maximum progress of the bin, whatever the progress of candidates in
\* other bins or outside all bins; the survivors are exactly these.
\* Stated for settings check_settings accepts and passes after a step.
C7_BinWinner ==
    [][op'.name = "pruning" /\ op'.trim /\ ~SettingsError /\ count >= 1 =>
        {op'.idxs[k] : k \in 1..Len(op'.idxs)}
        = {CHOOSE j \in BestOfBin(i) : \A k \in BestOfBin(i) : j <= k :
             i \in PositiveBins}
      ]_vars

\* C8 (as claimed): a candidate the gate has blocked in every step has
\* progress 0 after each step, and no pruning pass keeps it while its bin
\* holds a candidate that is not blocked and has positive progress.
\* Stated for settings check_settings accepts.
C8_BlockedNeverSurvives ==
    [][/\ \A j \in 1..Len(gate') :
            count' >= 1 /\ gate'[j].always => full_dist_traveled'[j] = 0
       /\ op'.name = "pruning" /\ ~SettingsError /\ count >= 1 =>
            \A j \in 1..NofRoutes :
                ( /\ gate[j].always
                  /\ \E u \in 1..NofRoutes :
                        /\ BinOf(u) = BinOf(j)
                        /\ BinOf(j) # 0
                        /\ ~gate[u].now
                        /\ full_dist_traveled[u] > 0 )
                => \A k \in 1..Len(op'.idxs) : op'.idxs[k] # j
      ]_vars

\* C9 (as claimed): when every live candidate is blocked (all progress is 0)
\* a pruning pass selects no survivor and ends in a reported fatal error; it
\* does not return normally with zero columns.
\* Stated for settings check_settings accepts.
C9_AllBlockedIsFatal ==
    [][( /\ op'.name = "pruning"
         /\ ~SettingsError
         /\ count >= 1
         /\ \A j \in 1..NofRoutes : gate[j].now /\ full_dist_traveled[j] = 0 )
       => /\ Len(op'.idxs) = 0
          /\ log' = "error"
          /\ op'.raised
      ]_vars

\* C10: check_settings raises ValueError exactly when variant_segments is
\* odd, prune_segments is odd, or variant_segments/2*variant_increments_deg is
\* at least prune_sector_deg_half, and it changes no state.
C10_CheckSettings ==
    [][op'.name = "check_settings" =>
        /\ op'.raised <=>
             \/ variant_segments % 2 = 1
             \/ prune_segments % 2 = 1
             \/ variant_segments * variant_increments_deg
                  >= 2 * prune_sector_deg_half
        /\ UNCHANGED <<per_step_vars, per_candidate_vars, count, flag_vars,
                       settings_vars>>
      ]_vars

\* C10 witness: even segment numbers, the fan exactly as wide as the sector:
\* check_settings has raised
C10_Witness ==
    /\ op.name = "check_settings"
    /\ op.raised
    /\ variant_segments % 2 = 0
    /\ prune_segments % 2 = 0
    /\ variant_segments * variant_increments_deg = 2 * prune_sector_deg_half

\* the distance from the current position of candidate j to finish_temp is
\* smaller than the step distance dist holds for j
Arrives(j, dist) ==
    Inverse(lats_per_step[1][j], lons_per_step[1][j],
            finish_temp.lat, finish_temp.lon).s12 < dist[j]

\* C11: in move_boat_direct an arrival is detected exactly when some
\* candidate's distance to finish_temp is smaller than its step distance: then
\* is_last_step becomes true if finish_temp is the final destination, and
\* is_pos_constraint_step becomes true with is_last_step keeping its value if
\* it is a waypoint; without an arrival neither flag changes.
C11_ArrivalFlags ==
    [][op'.name = "move_boat_direct" =>
        LET arrival == \E j \in 1..NofRoutes : Arrives(j, op'.dist)
            final == finish_temp = finish
        IN /\ arrival /\ final => is_last_step'
           /\ arrival /\ ~final =>
                 is_pos_constraint_step' /\ is_last_step' = is_last_step
           /\ ~arrival => UNCHANGED flag_vars
      ]_vars

\* C11 witness: a step that arrived at the waypoint: the waypoint flag is set
\* and the terminal flag is not
C11_Witness ==
    /\ op.name = "move_boat_direct"
    /\ finish_temp = waypoint
    /\ is_pos_constraint_step
    /\ ~is_last_step

\* candidate j is at finish_temp after the step
AtDestination(j) ==
    /\ lats_per_step'[1][j] = finish_temp.lat
    /\ lons_per_step'[1][j] = finish_temp.lon

\* candidate j has been advanced from its position along its current heading
\* by the step distance dist holds for j
Advanced(j, dist) ==
    LET moved == Direct(lats_per_step[1][j], lons_per_step[1][j],
                        current_variant[j], dist[j])
    IN /\ lats_per_step'[1][j] = moved.lat2
       /\ lons_per_step'[1][j] = moved.lon2

\* C12 (as claimed): in a step, a candidate whose distance to finish_temp is
\* smaller than its step distance ends at finish_temp, and a candidate whose
\* distance is not smaller is advanced along its own heading by its own step
\* distance.  Stated for settings check_settings accepts.
C12_PerCandidate ==
    [][op'.name = "move_boat_direct" /\ ~SettingsError =>
        \A j \in 1..NofRoutes :
            IF Arrives(j, op'.dist) THEN AtDestination(j)
            ELSE Advanced(j, op'.dist)
      ]_vars

\* C12 (amended): if in a step the distance of some candidate to finish_temp
\* is smaller than its step distance, every candidate ends the step at
\* finish_temp; otherwise every candidate is advanced along its own heading
\* by its own step distance.
C12_AllToDestination ==
    [][op'.name = "move_boat_direct" =>
        \A j \in 1..NofRoutes :
            IF \E k \in 1..NofRoutes : Arrives(k, op'.dist) THEN AtDestination(j)
            ELSE Advanced(j, op'.dist)
      ]_vars

\* C12 witness: a step has ended at the destination for two candidates that
\* came from different positions
C12_Witness ==
    /\ op.name = "move_boat_direct"
    /\ count = 2
    /\ NofRoutes >= 2
    /\ \A j \in 1..NofRoutes :
          lats_per_step[1][j] = finish_temp.lat /\ lons_per_step[1][j] = finish_temp.lon
    /\ \E j, k \in 1..NofRoutes : lats_per_step[2][j] # lats_per_step[2][k]

\* the progress the step has left candidate j with: 0 if the gate blocked it,
\* else the distance from start_temp to its new position
ProgressLaw(j) ==
    full_dist_traveled'[j] =
        IF gate'[j].now THEN 0
        ELSE Inverse(start_temp.lat, start_temp.lon,
                     lats_per_step'[1][j], lons_per_step'[1][j]).s12

\* C13: after each step, and after the define_variants and pruning calls
\* that follow it, the progress of every candidate not blocked in the step is
\* the geodesic distance from start_temp to its newest position and the
\* progress of every candidate blocked in the step is 0; the step itself
\* keeps all candidates, blocked ones included.
C13_ProgressFromOrigin ==
    [][/\ op'.name = "move_boat_direct" =>
            /\ Cols(lats_per_step') = NofRoutes
            /\ Len(full_dist_traveled') = NofRoutes
       /\ op'.name \in {"move_boat_direct", "define_variants", "pruning"}
          /\ count' >= 1 =>
            \A j \in 1..Cols(lats_per_step') : ProgressLaw(j)
      ]_vars

\* the sum of the step distances in the history of candidate j
DistHistory(j) ==
    SumSeq([r \in 1..Rows(dist_per_step) |-> dist_per_step[r][j]])

\* C13 witness: after a step one candidate is blocked and has progress 0 and
\* another, not blocked, has a progress that differs from the sum of the
\* step distances in its history
C13_Witness ==
    /\ op.name = "move_boat_direct"
    /\ \E j \in 1..NofRoutes : gate[j].now /\ full_dist_traveled[j] = 0
    /\ \E j \in 1..NofRoutes :
          /\ ~gate[j].now
          /\ full_dist_traveled[j] > 0
          /\ full_dist_traveled[j] # DistHistory(j)

\* the arrays with one row per step: the five per-step arrays and the four
\* arrays of shipparams_per_step
PerStepArrays ==
    <<lats_per_step, lons_per_step, azimuth_per_step, dist_per_step,
      starttime_per_step, shipparams_per_step.rpm, shipparams_per_step.power,
      shipparams_per_step.speed, shipparams_per_step.fuel>>

\* a step has put its row on top of the rows of array before: array after
\* has steps+1 rows, the rows of before below its first row
NewestFirst(before, after, steps) ==
    /\ Len(after) = steps + 1
    /\ \A r \in 2..Len(after) : r - 1 <= Len(before) /\ after[r] = before[r - 1]

\* array after has the steps+1 rows of array before in reverse order
Reversed(before, after, steps) ==
    /\ Len(after) = steps + 1
    /\ Len(before) = steps + 1
    /\ \A r \in 1..(steps + 1) : after[r] = before[steps + 2 - r]

\* C14 (as claimed): before terminate row r of every per-step container holds
\* the data of step count-r: every step puts its row on top of all of them, so
\* that they have count+1 rows with the departure point in the last one; one
\* terminate call reverses the count+1 rows of every per-step container, so
\* that row r holds the data of step r and row 0 the departure point.
C14_RowOrder ==
    [][/\ op'.name = "move_boat_direct" =>
            /\ \A c \in 1..Len(PerStepArrays) :
                  NewestFirst(PerStepArrays[c], PerStepArrays'[c], count')
            /\ \A j \in 1..Cols(lats_per_step') :
                  /\ lats_per_step'[count' + 1][j] = start.lat
                  /\ lons_per_step'[count' + 1][j] = start.lon
       /\ op'.name = "terminate" /\ op.name # "terminate" =>
            /\ \A c \in 1..Len(PerStepArrays) :
                  Reversed(PerStepArrays[c], PerStepArrays'[c], count)
            /\ \A j \in 1..Cols(lats_per_step') :
                  /\ lats_per_step'[1][j] = start.lat
                  /\ lons_per_step'[1][j] = start.lon
      ]_vars

\* C15 (as claimed): the column get_final_index returns at termination is a
\* column of the surviving candidates whose full_dist_traveled is the maximum.
C15_FinalIndexIsMax ==
    op.name = "terminate" /\ NofRoutes >= 1 =>
        /\ Len(op.idxs) = 1
        /\ op.idxs[1] \in 1..Len(full_dist_traveled)
        /\ \A j \in 1..Len(full_dist_traveled) :
              full_dist_traveled[op.idxs[1]] >= full_dist_traveled[j]

\* C16 (as claimed): the azimuth a step stores for a candidate is the heading
\* along which the candidate moved from its previous position to the position
\* stored in the same row; in a step that sends the candidates directly to
\* the destination it is the azimuth of the geodesic from the previous position
\* to the destination (for a candidate that is not at the destination yet).
\* Stated for settings check_settings accepts.
C16_StoredAzimuth ==
    [][op'.name = "move_boat_direct" /\ ~SettingsError =>
        \A j \in 1..NofRoutes :
            LET stored == azimuth_per_step'[1][j]
                from_lat == lats_per_step[1][j]
                from_lon == lons_per_step[1][j]
                to_dest == Inverse(from_lat, from_lon,
                                   finish_temp.lat, finish_temp.lon)
            IN IF \E k \in 1..NofRoutes : Arrives(k, op'.dist)
               THEN to_dest.s12 > 0 => stored = to_dest.azi1
               ELSE /\ Direct(from_lat, from_lon, stored, op'.dist[j]).lat2
                         = lats_per_step'[1][j]
                    /\ Direct(from_lat, from_lon, stored, op'.dist[j]).lon2
                         = lons_per_step'[1][j]
      ]_vars

\* array after is array before restricted to the columns idxs, in that order
RestrictedAxis1(before, after, idxs) ==
    /\ Len(after) = Len(before)
    /\ \A r \in 1..Len(before) :
          /\ Len(after[r]) = Len(idxs)
          /\ \A k \in 1..Len(idxs) :
                idxs[k] \in 1..Len(before[r]) /\ after[r][k] = before[r][idxs[k]]

\* vector after is vector before restricted to the entries idxs, in that order
Restricted(before, after, idxs) ==
    /\ Len(after) = Len(idxs)
    /\ \A k \in 1..Len(idxs) :
          idxs[k] \in 1..Len(before) /\ after[k] = before[idxs[k]]

\* the per-candidate vectors
PerCandidateVectors ==
    <<current_azimuth, current_variant, full_dist_traveled,
      full_time_traveled, full_fuel_consumed, time>>

\* C17 (as claimed): after a pruning pass every per-step and per-candidate
\* container is its former self restricted to the same list of surviving
\* columns, in the same order: new column k holds everywhere the unchanged
\* values of former column idxs[k]; the rows and count are unchanged.
\* Stated for settings check_settings accepts and passes after a step.
C17_SameSurvivors ==
    [][op'.name = "pruning" /\ ~SettingsError /\ count >= 1 =>
        /\ \A c \in 1..Len(PerStepArrays) :
              RestrictedAxis1(PerStepArrays[c], PerStepArrays'[c], op'.idxs)
        /\ \A c \in 1..Len(PerCandidateVectors) :
              Restricted(PerCandidateVectors[c], PerCandidateVectors'[c], op'.idxs)
        /\ count' = count
      ]_vars

\* the containers a pruning pass indexes with idxs: all per-step arrays and
\* all per-candidate vectors but current_azimuth, which is assigned from
\* current_variant
IndexedWidths ==
    {Cols(PerStepArrays[c]) : c \in 1..Len(PerStepArrays)}
    \cup {Len(PerCandidateVectors[c]) : c \in 2..Len(PerCandidateVectors)}

\* C18: if a pruning pass selects an index that does not exist in one of the
\* containers it indexes, the pass raises 'Pruned indices running out of
\* bounds.'; a pass that returns normally leaves every container with exactly
\* as many columns as indices were selected.
C18_OutOfBoundsRaises ==
    [][op'.name = "pruning" =>
        /\ (\E k \in 1..Len(op'.idxs) : \E w \in IndexedWidths : op'.idxs[k] > w)
              => op'.raised
        /\ ~op'.raised =>
              /\ \A c \in 1..Len(PerStepArrays) :
                    \A row \in 1..Len(PerStepArrays'[c]) :
                        Len(PerStepArrays'[c][row]) = Len(op'.idxs)
              /\ \A c \in 1..Len(PerCandidateVectors) :
                    Len(PerCandidateVectors'[c]) = Len(op'.idxs)
      ]_vars

\* C18 witness: a pass has selected column 3 of positions with three columns
\* while azimuth_per_step had two, and has raised
C18_Witness ==
    /\ op.name = "pruning"
    /\ op.raised
    /\ \E k \in 1..Len(op.idxs) : op.idxs[k] = 3
    /\ Cols(azimuth_per_step) = 2

\* C19 (as claimed): when define_variants or pruning finds the shapes of the
\* containers to mismatch and raises, it leaves every container as it was
\* before the call.  Stated for settings check_settings accepts.
C19_NoMutationOnMismatch ==
    [][op'.name \in {"define_variants", "pruning"} /\ op'.raised
       /\ ~SettingsError =>
        UNCHANGED <<per_step_vars, per_candidate_vars>>
      ]_vars

\* lats_per_step, lons_per_step, azimuth_per_step and dist_per_step do not
\* all have the same number of columns, or do not all have count+1 rows
PositionShapesMismatch ==
    \/ \E m \in {lons_per_step, azimuth_per_step, dist_per_step} :
          \E r \in 1..Len(m) : Len(m[r]) # NofRoutes
    \/ \E m \in {lats_per_step, lons_per_step, azimuth_per_step, dist_per_step} :
          Len(m) # count + 1

\* C20 (as claimed): define_variants fails with an error whenever, after the
\* replication, lats_per_step, lons_per_step, azimuth_per_step and
\* dist_per_step do not all have the same column count or do not all have
\* count+1 rows.  Stated for settings check_settings accepts.
C20_ExpansionShapeError ==
    [][op'.name = "define_variants" /\ PositionShapesMismatch' /\ ~SettingsError
       => op'.raised
      ]_vars

\* the settings the configuration errors are about: an odd variant_segments,
\* an odd prune_segments, or a branch fan (variant_segments/2 increments to
\* each side) at least as wide as the pruning funnel (prune_sector_deg_half)
RejectedSettings ==
    \/ variant_segments % 2 = 1
    \/ prune_segments % 2 = 1
    \/ variant_segments * variant_increments_deg >= 2 * prune_sector_deg_half

C22_ZeroBinNoSurvivor ==
    [][op'.name = "pruning" /\ ~SettingsError /\ count >= 1 =>
        \A k \in 1..Len(op'.idxs) : full_dist_traveled[op'.idxs[k]] > 0
      ]_vars

\* the route terminate extracts has one entry per step and the departure
\* point: every per-step array it is read from has count+1 rows
RouteHasEveryStep ==
    \A c \in 1..Len(PerStepArrays) : Rows(PerStepArrays[c]) = count + 1

\* C23 (as claimed): terminate validates the extracted route before it
\* returns it: when terminate has returned normally, the route has no
\* missing and no duplicated step, i.e. exactly one row per step in every
\* per-step container.
\* Stated for settings check_settings accepts and searches of one step or more.
C23_RouteValidated ==
    op.name = "terminate" /\ ~op.raised /\ ~SettingsError /\ count >= 1
        => RouteHasEveryStep

\* C24: the reversal of terminate is an involution: every terminate call
\* replaces each per-step container by its reversal along the step axis, and
\* reversing the result once more (what a second terminate call does) gives
\* the container as it was before the call, row for row and column for column.
C24_FlipTwice ==
    [][op'.name = "terminate" =>
        \A c \in 1..Len(PerStepArrays) :
            /\ PerStepArrays'[c] = Flip(PerStepArrays[c])
            /\ Flip(PerStepArrays'[c]) = PerStepArrays[c]
            /\ Rows(PerStepArrays'[c]) = Rows(PerStepArrays[c])
            /\ \A r \in 1..Rows(PerStepArrays[c]) :
                  Len(PerStepArrays'[c][r])
                  = Len(PerStepArrays[c][Rows(PerStepArrays[c]) + 1 - r])
      ]_vars

\* C24 witness: terminate has been called twice on containers of three
\* rows: the departure row (step distance 0) is back in the last row and the
\* row of the newest step, which differs from the middle one, in the first
C24_Witness ==
    /\ op.name = "terminate"
    /\ count = 2
    /\ Rows(dist_per_step) = 3
    /\ \A j \in 1..Cols(dist_per_step) : dist_per_step[3][j] = 0
    /\ \A j \in 1..Cols(dist_per_step) : dist_per_step[1][j] > 0
    /\ lats_per_step[1] # lats_per_step[2]

\* C25: get_wind_vector(time) either returns a stored wind vector whose
\* timestamp equals the query time rounded to the weather time resolution,
\* or fails with an error (KeyError: no stored entry for the computed index;
\* Exception: the timestamp of the entry differs); it never returns a wind
\* vector belonging to a different time.
C25_WindVectorOfRoundedTime ==
    ret.name = "get_wind_vector" =>
        \/ /\ ret.raised \in {"KeyError", "Exception"}
           /\ ret.vector = NoVector
        \/ /\ ret.raised = "none"
           /\ \E i \in 1..Len(weather.wind_vectors) :
                 ret.vector = weather.wind_vectors[i]
           /\ ret.vector.timestamp = round_time(ret.time, weather.time_res)
           /\ ret.vector.u = round_time(ret.time, weather.time_res)

\* C25 witness: get_wind_vector has returned the wind vector of a forecast
\* step after the first for a query time that is not itself a forecast time
C25_Witness ==
    /\ ret.name = "get_wind_vector"
    /\ ret.raised = "none"
    /\ ret.vector.timestamp # ret.time
    /\ ret.vector.timestamp > weather.time_start
    /\ ret.vector \in {weather.wind_vectors[i] : i \in 1..Len(weather.wind_vectors)}

\* midnight of the day of datetime dt
Midnight(dt) ==
    dt - (dt % (SecondsPerDay * TicksPerSecond))

\* instant value is a whole multiple of round_to seconds after midnight of
\* the day of dt, has no fraction of a second, and no other such multiple is
\* closer to dt: it is at most half of round_to away
ClosestMultiple(value, dt, round_to) ==
    /\ (value - Midnight(dt)) % (round_to * TicksPerSecond) = 0
    /\ Microsecond(value) = 0
    /\ 2 * Abs(value - dt) <= round_to * TicksPerSecond

\* C26 (as claimed): for every datetime dt and every positive round_to the
\* result of round_time(dt, round_to) is the instant closest to dt that is a
\* whole multiple of round_to seconds, with microseconds set to zero.
C26_RoundsToClosest ==
    ret.name = "round_time" => ClosestMultiple(ret.value, ret.time, ret.round_to)

\* the edges bins, kept multiplied by prune_segments, are prune_segments+1
\* ascending, equally spaced values from prune_sector_deg_half below axis
\* to prune_sector_deg_half above it
EdgesAround(bins, axis) ==
    /\ Len(bins) = prune_segments + 1
    /\ bins[1] = (axis - prune_sector_deg_half) * prune_segments
    /\ bins[Len(bins)] = (axis + prune_sector_deg_half) * prune_segments
    /\ \A k \in 1..(Len(bins) - 1) :
          /\ bins[k] < bins[k + 1]
          /\ bins[k + 1] - bins[k] = bins[2] - bins[1]

\* C28 (as claimed): in a pass of pruning_headings_centered the symmetry
\* axis is the median of the candidates' azimuths to the temporary
\* destination, for an odd number of candidates the middle element of the
\* sorted azimuths, and both strategies pass to pruning prune_segments+1
\* ascending, equally spaced edges that span prune_sector_deg_half on each
\* side of their axis.
\* Stated for settings check_settings accepts and passes after a step.
C28_MedianAxis ==
    [][op'.name = "pruning" /\ ~SettingsError /\ count >= 1 =>
        /\ NofRoutes % 2 = 1 =>
              MeanAzimuth = SortAsc(AzimuthsToFinish)[(NofRoutes + 1) \div 2]
        /\ EdgesAround(HeadingsCenteredBins, MeanAzimuth)
        /\ EdgesAround(GcrCenteredBins, SymmetryAzimuth)
      ]_vars

\* C29: the terminal-step flag does not depend on the constraint gate: after
\* a move_boat_direct step is_last_step holds exactly if it held before or a
\* candidate came within reach of finish_temp and finish_temp is the final
\* destination, whatever the gate says of the step; and every candidate
\* the gate blocks in the step has progress 0, on a terminal step too.
C29_FlagIgnoresGate ==
    [][op'.name = "move_boat_direct" =>
        LET arrival == \E j \in 1..NofRoutes : Arrives(j, op'.dist)
            final == finish_temp = finish
        IN /\ is_last_step' <=> (is_last_step \/ (arrival /\ final))
           /\ \A j \in 1..Len(gate') :
                 gate'[j].now => full_dist_traveled'[j] = 0
      ]_vars

\* C29 witness: a step has ended with is_last_step set while every one of
\* several candidates, all of them at the final destination, is blocked and
\* has progress 0
C29_Witness ==
    /\ op.name = "move_boat_direct"
    /\ is_last_step
    /\ NofRoutes >= 2
    /\ \A j \in 1..NofRoutes :
          /\ gate[j].now
          /\ full_dist_traveled[j] = 0
          /\ lats_per_step[1][j] = finish.lat
          /\ lons_per_step[1][j] = finish.lon

====
